---------------------------- MODULE Spec2Model ----------------------------
(***************************************************************************)
(* Hierarchical state machine of miyoo_square                              *)
(* (src/libs/engine/state_machine/state_machine.cpp, state_machine.h).     *)
(*                                                                         *)
(* A State object lives in a heap cell; std::unique_ptr<State> and State*  *)
(* are addresses of cells.  The machine owns the cells listed in `states`; *)
(* parent, children and current_state are raw, non-owning addresses, so    *)
(* they can outlive the cell they designate.  A cell that is not owned any *)
(* more keeps its last content until the allocator hands the cell out      *)
(* again; reading it is undefined behaviour and is modelled as the choice  *)
(* between the process dying and the stale content being read.             *)
(*                                                                         *)
(* Addresses are compared for equality only, so cells are named up to      *)
(* renaming: after every call the owned cells are named 1..Len(states) in  *)
(* vector order and the released cells that a pointer still designates     *)
(* follow them.  Reading a storage slot of a children vector that lies     *)
(* behind its size but inside its storage yields what the slot held last   *)
(* (vector iterators of the release build are plain pointers).             *)
(***************************************************************************)
EXTENDS Integers, Sequences, FiniteSets, TLC

\* ------------------------------------------------------------------ bounds

\* Largest number of State objects the machine holds at one time when the
\* driver varies names and callbacks (specification Spec).
MaxNodes == 2

\* Number of second-level identifiers {1,i} that driver uses.
MaxChild == 1

\* Largest number of State objects the machine holds at one time when the
\* driver builds wide hierarchies (specification SpecTree).
MaxTreeNodes == 4

\* Number of second-level identifiers {1,i} that driver uses.
MaxLevel == 3

\* Longest identifier the State_ID driver builds (number of levels).
MaxIdLen == 3

\* Largest number of events SDL_PollEvent delivers in one iteration of the
\* main loop.
MaxEvents == 3

\* Largest value the Lang_state driver passes to Set_lang.
MaxLangValue == 60

\* ------------------------------------------------------- input value sets

\* Heap cells: enough for the owned State objects, the released cells a raw
\* pointer still designates, and one cell no pointer designates.
Addr == 1..((IF MaxNodes > MaxTreeNodes THEN MaxNodes ELSE MaxTreeNodes) + 3)

\* nullptr
NULL == 0

\* Identifiers the first driver passes: the roots {1} and {2} and the
\* children {1,1} .. {1,MaxChild} of {1}.
IDS == {<<1>>, <<2>>} \cup {<<1, i>> : i \in 1..MaxChild}

\* Identifiers the second driver passes: the root {1} and its children
\* {1,1} .. {1,MaxLevel}.
TreeIDS == {<<1>>} \cup {<<1, i>> : i \in 1..MaxLevel}

\* Level numbers and identifiers the State_ID driver passes: every sequence
\* of at most MaxIdLen levels, the empty identifier included.  Two level
\* numbers tell equal levels from unequal ones.
IdLevels == {0, 1}
IdInputs == UNION {[1..n -> IdLevels] : n \in 0..MaxIdLen}

\* Outcomes of a read through a dangling pointer.
UBOutcomes == {"stale", "crash"}

\* ------------------------------------------------------------------- state

VARIABLES
    heap,           \* Addr -> State object stored in the cell
    states,         \* State_machine::states, the owning vector (of addresses)
    current_state,  \* State_machine::current_state (address or NULL)
    last,           \* the call made last: [op, id, before, again]; `before` is
                    \* what the machine held when clear_states was called,
                    \* `again` that a removal repeats the call before it
    ret,            \* its result: "true", "false", "void", or "none" at start
    log,            \* callbacks invoked by the last call, in order
    crashed,        \* the process died in a read through a dangling pointer
    idc,            \* the State_ID method called last: [op, self, arg, after,
                    \* result], `after` the receiver when the call returned
    app,            \* the application: [app_state, pc, frame, code];
                    \* app_state is sdl_app_ctx::app_state, pc the position of
                    \* main, frame the events polled and the calls forwarded
                    \* to the machine (in the current iteration of the main
                    \* loop, or by the last frame function called), code
                    \* what main returned
    lang            \* Lang_state: [Curr_lang, op, arg, result, got, before],
                    \* the current language, the method called last, what
                    \* Set_lang or Get_lang returned and the language before

vars == <<heap, states, current_state, last, ret, log, crashed, idc, app, lang>>

\* ---------------------------------------------------------------- State_ID

\* Variant of IdEq: only the number of levels is compared.
IdEq_lengths(a, b) ==
    Len(a) = Len(b)

\* State_ID::operator==
IdEq(a, b) ==
    /\ Len(a) = Len(b)
    /\ \A i \in 1..Len(a) : a[i] = b[i]

\* Variant of Parent: the last level is removed only if another one is left.
Parent_keeps_single(id) ==
    IF Len(id) > 1 THEN SubSeq(id, 1, Len(id) - 1) ELSE id

\* State_ID::parent
Parent(id) ==
    IF Len(id) # 0 THEN SubSeq(id, 1, Len(id) - 1) ELSE id

\* Variant of IsParentOf: the sizes are not compared, every longer
\* identifier that starts with the levels of `self` passes.
IsParentOf_prefix(self, child) ==
    /\ Len(self) < Len(child)
    /\ \A i \in 1..Len(self) : self[i] = child[i]

\* Variant of IsParentOf: only the sizes are compared, the levels are not.
IsParentOf_sizes(self, child) ==
    Len(self) + 1 = Len(child)

\* State_ID::is_parent_of
IsParentOf(self, child) ==
    IF Len(self) + 1 # Len(child)
    THEN FALSE
    ELSE \A i \in 1..Len(self) : self[i] = child[i]

\* Variant of Child: the new level is inserted in front.
Child_front(self, i) == <<i>> \o self

\* State_ID::child
Child(self, i) == Append(self, i)

\* A call of a const State_ID method `op` on the receiver `self` with the
\* argument `arg`: the receiver is read, never written.
IdCall(op, self, arg, result) ==
    [op |-> op, self |-> self, arg |-> arg, after |-> self, result |-> result]

\* -------------------------------------------------------------- Lang_state

\* enum class Lang_list : unsigned int
EN == 0
RU == 1
LIMIT == 2

DEFAULT_LANG == EN

\* Variant of Set_lang: the sentinel LIMIT passes the range test and is
\* stored.
Set_lang_accepts_limit(cur, language) ==
    IF language < EN \/ language > LIMIT
    THEN [Curr_lang |-> cur, result |-> "false"]
    ELSE [Curr_lang |-> language, result |-> "true"]

\* Lang_state::Set_lang on the current language `cur`: the new current
\* language and the result.
Set_lang(cur, language) ==
    IF language < EN \/ language >= LIMIT
    THEN [Curr_lang |-> cur, result |-> "false"]
    ELSE IF language = EN THEN [Curr_lang |-> EN, result |-> "true"]
    ELSE IF language = RU THEN [Curr_lang |-> RU, result |-> "true"]
    ELSE [Curr_lang |-> cur, result |-> "false"]

\* Lang_state::Get_lang
Get_lang(cur) == cur

\* ------------------------------------------------------------------- State

\* State::State: all callbacks null, parent null, no children.
NewState(state_id, state_name) ==
    [id |-> state_id, name |-> state_name, cbs |-> {},
     parent |-> NULL, children |-> << >>]

\* Content of a cell nobody can reach any more.
FreeCell == NewState(<< >>, "")

\* ------------------------------------------------------------ helper views

Range(s) == {s[i] : i \in 1..Len(s)}

\* Cells owned by the vector `v`.
Live(v) == Range(v)

\* Lowest element of a non-empty set of numbers.
Min(S) == CHOOSE x \in S : \A y \in S : x <= y

\* Released cells still designated by current_state, by the parent pointer
\* or by the children vector of an owned State.
Dangling(h, v, cur) ==
    (({cur} \cup {h[a].parent : a \in Live(v)}
            \cup UNION {Range(h[a].children) : a \in Live(v)}) \ {NULL}) \ Live(v)

\* Position of the first pointer that designates the released cell `a`:
\* current_state first, then the owned States in vector order, for each its
\* parent pointer and then its children.
RefRank(h, v, cur, a) ==
    LET K    == Cardinality(Addr) + 1
        refs == {p \in (1..Len(v)) \X (0..Cardinality(Addr)) :
                   IF p[2] = 0
                   THEN h[v[p[1]]].parent = a
                   ELSE /\ p[2] <= Len(h[v[p[1]]].children)
                        /\ h[v[p[1]]].children[p[2]] = a}
    IN  IF cur = a THEN 0
        ELSE Min({p[1] * K + p[2] : p \in refs})

\* Names of the cells after a call: owned cells by their index in the
\* vector, designated released cells after them, NULL for the others.
NewNames(h, v, cur) ==
    LET dang == Dangling(h, v, cur)
        rank == [a \in dang |-> RefRank(h, v, cur, a)]
    IN  [a \in Addr \cup {NULL} |->
           IF a = NULL THEN NULL
           ELSE IF a \in Live(v) THEN CHOOSE i \in 1..Len(v) : v[i] = a
           ELSE IF a \in dang
                THEN Len(v) + Cardinality({b \in dang : rank[b] <= rank[a]})
           ELSE NULL]

\* The cells after a call, renamed by `nm`.  An owned State keeps all its
\* fields.  Of a released cell only what a pointer can still read through is
\* kept: name and callbacks behind current_state, the children vector behind
\* a parent pointer, parent and children behind a children vector.
Release(h, v, cur, nm) ==
    LET ren(q) == SelectSeq([k \in 1..Len(q) |-> nm[q[k]]], LAMBDA e : e # NULL)
        used   == {nm[a] : a \in Addr} \ {NULL}
        old    == [j \in used |-> CHOOSE a \in Addr : nm[a] = j]
        viaPar(a)  == \E b \in Live(v) : h[b].parent = a
        viaKids(a) == \E b \in Live(v) : a \in Range(h[b].children)
    IN  [j \in Addr |->
           IF j \notin used THEN FreeCell
           ELSE IF j <= Len(v)
                THEN [h[v[j]] EXCEPT !.parent = nm[@], !.children = ren(@)]
                ELSE LET a == old[j]
                     IN  [id       |-> << >>,
                          name     |-> IF a = cur THEN h[a].name ELSE "",
                          cbs      |-> IF a = cur THEN h[a].cbs ELSE {},
                          parent   |-> IF viaKids(a) THEN nm[h[a].parent] ELSE NULL,
                          children |-> IF viaPar(a) \/ viaKids(a)
                                       THEN ren(h[a].children) ELSE << >>]]

\* Cells operator new may return: a released cell some pointer still
\* designates, or a cell no pointer designates (they are interchangeable,
\* the lowest stands for all).
Allocatable(h, v, cur) ==
    Dangling(h, v, cur)
      \cup {Min(Addr \ (Live(v) \cup Dangling(h, v, cur)))}

\* A callback invocation: the slot, the State it was read from (its id if
\* the machine owns it), and whether current_state designated that State at
\* the moment of the call.
Call(h, v, slot, node, cur) ==
    [cb     |-> slot,
     live   |-> node \in Live(v),
     id     |-> IF node \in Live(v) THEN h[node].id ELSE << >>,
     active |-> cur = node]

\* Outcome of a call: memory, result and callbacks invoked.
Outcome(h, v, cur, r, l) ==
    [heap |-> h, states |-> v, cur |-> cur, ret |-> r, log |-> l, crashed |-> FALSE]

\* The call died in a read through a dangling pointer after invoking `l`.
Crash(l) ==
    [heap |-> [a \in Addr |-> FreeCell], states |-> << >>, cur |-> NULL,
     ret |-> "none", log |-> l, crashed |-> TRUE]

\* What a clear_states call found: the number of States the machine owned
\* and whether an owned State with an exit callback was current.  The call
\* leaves no other trace of it.
Before(op) ==
    IF op = "clear_states"
    THEN [n    |-> Len(states),
          exit |-> /\ current_state \in Live(states)
                   /\ "on_exit" \in heap[current_state].cbs]
    ELSE [n |-> 0, exit |-> FALSE]

\* The call `op(id)` is a clear_state or clear_states made right after the
\* same call.
Again(op, id) ==
    /\ op \in {"clear_state", "clear_states"}
    /\ last.op = op
    /\ last.id = id

\* The state after the call `op(id)` with outcome `o`, made while the
\* application becomes `a`.  When the owned
\* cells already carry their names and no released cell is designated, the
\* renaming is the identity.
ReturnWith(op, id, o, a) ==
    LET v    == o.states
        same == /\ \A i \in 1..Len(v) : v[i] = i
                /\ Dangling(o.heap, v, o.cur) = {}
        nm   == NewNames(o.heap, v, o.cur)
    IN  /\ heap' = IF o.crashed THEN o.heap
                   ELSE IF same
                        THEN [j \in Addr |-> IF j <= Len(v) THEN o.heap[j] ELSE FreeCell]
                        ELSE Release(o.heap, v, o.cur, nm)
        /\ states' = [i \in 1..Len(v) |-> i]
        /\ current_state' = IF same THEN o.cur ELSE nm[o.cur]
        /\ last' = [op |-> op, id |-> id, before |-> Before(op),
                    again |-> Again(op, id)]
        /\ ret' = o.ret
        /\ log' = o.log
        /\ crashed' = o.crashed
        /\ idc' = idc
        /\ app' = a
        /\ lang' = lang

\* The state after the call `op(id)` of the machine made outside the frame
\* functions.
Return(op, id, o) == ReturnWith(op, id, o, app)

\* ----------------------------------------------------------- State_machine

\* Variant of id_exists: the scan returns after the first state.
id_exists_first_only(h, v, id) ==
    Len(v) > 0 /\ IdEq(h[v[1]].id, id)

\* State_machine::id_exists
id_exists(h, v, id) ==
    \E i \in 1..Len(v) : IdEq(h[v[i]].id, id)

\* Index of the first element of `v` whose id equals `id`, 0 if none
\* (the linear scans of add_state step 1, get_state, clear_state, go_to).
FindFirst(h, v, id) ==
    IF \E i \in 1..Len(v) : IdEq(h[v[i]].id, id)
    THEN CHOOSE i \in 1..Len(v) :
            /\ IdEq(h[v[i]].id, id)
            /\ \A j \in 1..(i - 1) : ~IdEq(h[v[j]].id, id)
    ELSE 0

\* Variant of LinkToParent: the parent pointer is set but the new state is
\* not pushed to the parent's children.
LinkToParent_no_push(h, v, raw) ==
    LET i == FindFirst(h, v, Parent(h[raw].id))
    IN  IF i = 0 THEN h ELSE [h EXCEPT ![raw].parent = v[i]]

\* Variant of LinkToParent: the new state is pushed to the parent's children
\* but its parent pointer is left null.
LinkToParent_no_parent(h, v, raw) ==
    LET i == FindFirst(h, v, Parent(h[raw].id))
    IN  IF i = 0 THEN h ELSE [h EXCEPT ![v[i]].children = Append(@, raw)]

\* add_state step 1: attach the new state `raw` to the first existing state
\* whose id is raw's parent id.
LinkToParent(h, v, raw) ==
    LET i == FindFirst(h, v, Parent(h[raw].id))
    IN  IF i = 0 THEN h
        ELSE [h EXCEPT ![raw].parent = v[i],
                       ![v[i]].children = Append(@, raw)]

\* Variant of AdoptChildren: the scan stops after the first adopted state,
\* as the scan of step 1 does.
AdoptChildren_first(h, v, raw, i) ==
    LET m == {k \in i..Len(v) : IsParentOf(h[raw].id, h[v[k]].id)}
    IN  IF m = {} THEN h
        ELSE [h EXCEPT ![v[Min(m)]].parent = raw,
                       ![raw].children = Append(@, v[Min(m)])]

\* add_state step 2: every existing state of which `raw` is the structural
\* parent is adopted, in the order of the vector.
RECURSIVE AdoptChildren(_, _, _, _)
AdoptChildren(h, v, raw, i) ==
    IF i > Len(v) THEN h
    ELSE IF IsParentOf(h[raw].id, h[v[i]].id)
         THEN AdoptChildren([h EXCEPT ![v[i]].parent = raw,
                                      ![raw].children = Append(@, v[i])],
                            v, raw, i + 1)
         ELSE AdoptChildren(h, v, raw, i + 1)

\* Variant of add_state_rejected: the registered State takes over the name
\* and the callbacks of the refused one.
add_state_overwrites(h, v, cur, raw) ==
    LET i == CHOOSE k \in 1..Len(v) : h[v[k]].id = h[raw].id
    IN  Outcome([h EXCEPT ![v[i]].name = h[raw].name, ![v[i]].cbs = h[raw].cbs],
                v, cur, "false", << >>)

\* add_state, the id is taken: the State is refused and released with the
\* unique_ptr parameter, nothing else is written.
add_state_rejected(h, v, cur, raw) ==
    Outcome(h, v, cur, "false", << >>)

\* Variant of add_state: the first State the machine takes over becomes
\* current and is entered.
add_state_enters(h, v, cur, raw, s) ==
    LET h0 == [h EXCEPT ![raw] = s]
    IN  IF id_exists(h0, v, s.id)
        THEN add_state_rejected(h0, v, cur, raw)
        ELSE Outcome(AdoptChildren(LinkToParent(h0, v, raw), v, raw, 1),
                     Append(v, raw),
                     IF cur = NULL THEN raw ELSE cur,
                     "true",
                     IF cur = NULL /\ "on_enter" \in s.cbs
                     THEN <<Call(h0, Append(v, raw), "on_enter", raw, raw)>>
                     ELSE << >>)

\* State_machine::add_state.  The caller has built the State `s` in the
\* cell `raw`; the machine takes it over or releases it.
add_state(h, v, cur, raw, s) ==
    LET h0 == [h EXCEPT ![raw] = s]
    IN  IF id_exists(h0, v, s.id)
        THEN add_state_rejected(h0, v, cur, raw)
        ELSE Outcome(AdoptChildren(LinkToParent(h0, v, raw), v, raw, 1),
                     Append(v, raw), cur, "true", << >>)

\* A driver that registers the States of `seq` one after the other in a
\* machine that holds the States `v` (init_game_states: make_unique, then
\* add_state, for each State); operator new returns the lowest free cell.
RECURSIVE RegisterAll(_, _, _)
RegisterAll(h, v, seq) ==
    IF seq = << >> THEN [heap |-> h, states |-> v]
    ELSE LET o == add_state(h, v, NULL, Len(v) + 1, Head(seq))
         IN  RegisterAll(o.heap, o.states, Tail(seq))

\* State_machine::get_state: the first State of the id, null if none.
get_state(h, v, state_id) ==
    LET i == FindFirst(h, v, state_id)
    IN  IF i = 0 THEN NULL ELSE v[i]

\* Variant of initiate_state: when the id is taken, the State that has it
\* is renamed.
initiate_state_renames(h, v, cur, raw, state_id, state_name) ==
    LET o == add_state(h, v, cur, raw, NewState(state_id, state_name))
    IN  IF o.ret = "true" THEN [o EXCEPT !.ret = "void"]
        ELSE [o EXCEPT !.ret = "void",
                       !.heap[get_state(h, v, state_id)].name = state_name]

\* State_machine::initiate_state: a State of that id and name is built in
\* the cell `raw` and handed to add_state, whose result is dropped.
initiate_state(h, v, cur, raw, state_id, state_name) ==
    [add_state(h, v, cur, raw, NewState(state_id, state_name)) EXCEPT !.ret = "void"]

\* The States of the game, in the order init_game_states registers them:
\* id, name and the callbacks it sets.
GameStates ==
    << [id |-> <<0>>,       name |-> "START",
        cbs |-> {"on_enter", "on_exit", "state_render"}],
       [id |-> <<1>>,       name |-> "MAIN_MENU",      cbs |-> {"on_enter", "on_exit"}],
       [id |-> <<1, 1>>,    name |-> "GAME",           cbs |-> {"on_enter", "on_exit"}],
       [id |-> <<1, 1, 1>>, name |-> "LEVEL_GAMEPLAY", cbs |-> {"on_enter", "on_exit"}],
       [id |-> <<1, 1, 2>>, name |-> "SMALL_MENU",     cbs |-> {"on_enter", "on_exit"}],
       [id |-> <<2>>,       name |-> "EXIT_PROGRAM",   cbs |-> {"on_enter", "on_exit"}] >>

\* init_game_states of libs/state_machine: each State is built with its
\* callbacks and handed to add_state.
init_game_states(h, v, cur) ==
    LET r == RegisterAll(h, v, [k \in 1..Len(GameStates) |->
                 [NewState(GameStates[k].id, GameStates[k].name)
                     EXCEPT !.cbs = GameStates[k].cbs]])
    IN  Outcome(r.heap, r.states, cur, "void", << >>)

\* init_game_states of libs/game_logic: for each State initiate_state, then
\* the callbacks are set on what get_state returns for the id, if anything.
RECURSIVE InitiateAll(_, _, _, _)
InitiateAll(h, v, cur, seq) ==
    IF seq = << >> THEN Outcome(h, v, cur, "void", << >>)
    ELSE LET g == Head(seq)
             o == initiate_state(h, v, cur, Len(v) + 1, g.id, g.name)
             s == get_state(o.heap, o.states, g.id)
             h1 == IF s = NULL THEN o.heap
                   ELSE [o.heap EXCEPT ![s].cbs = @ \cup g.cbs]
         IN  InitiateAll(h1, o.states, cur, Tail(seq))

init_game_states_initiate(h, v, cur) == InitiateAll(h, v, cur, GameStates)

\* go_to, the exit callback: invoked through current_state before the
\* switch, if a state is current and the slot is set.
go_to_exit(h, v, cur) ==
    IF cur # NULL /\ "on_exit" \in h[cur].cbs
    THEN <<Call(h, v, "on_exit", cur, cur)>>
    ELSE << >>

\* Variant of go_to_enter: the enter callback is invoked on the target before
\* current_state is switched to it.
go_to_enter_early(h, v, cur, target) ==
    IF "on_enter" \in h[target].cbs
    THEN <<Call(h, v, "on_enter", target, cur)>>
    ELSE << >>

\* go_to, the enter callback: invoked through current_state after it was
\* switched from `cur` to `target`, if the slot is set.
go_to_enter(h, v, cur, target) ==
    IF "on_enter" \in h[target].cbs
    THEN <<Call(h, v, "on_enter", target, target)>>
    ELSE << >>

\* Variant of go_to_found: a state that is already current is kept.
go_to_found_keeps(h, v, cur, target) ==
    Outcome(h, v, IF cur = NULL THEN target ELSE cur, "true",
            go_to_exit(h, v, cur) \o go_to_enter(h, v, cur, target))

\* Variant of go_to_found: the enter callback runs before the exit callback.
go_to_found_swapped(h, v, cur, target) ==
    Outcome(h, v, target, "true",
            go_to_enter(h, v, cur, target) \o go_to_exit(h, v, cur))

\* Variant of go_to_found: a transition to the current state is skipped.
go_to_found_shortcut(h, v, cur, target) ==
    IF cur = target
    THEN Outcome(h, v, cur, "true", << >>)
    ELSE Outcome(h, v, target, "true",
                 go_to_exit(h, v, cur) \o go_to_enter(h, v, cur, target))

\* go_to, the id was found at `target`.
go_to_found(h, v, cur, target) ==
    Outcome(h, v, target, "true",
            go_to_exit(h, v, cur) \o go_to_enter(h, v, cur, target))

\* Variant of go_to_missing: the current state is exited and dropped although
\* the target does not exist.
go_to_missing_exits(h, v, cur) ==
    Outcome(h, v, NULL, "false", go_to_exit(h, v, cur))

\* go_to, no state has the id.
go_to_missing(h, v, cur) ==
    Outcome(h, v, cur, "false", << >>)

\* Variant of go_to: only the current state, its parent and its children
\* are accepted as targets.
go_to_along_links(h, v, cur, id, ub) ==
    LET i == FindFirst(h, v, id)
    IN  IF i = 0 THEN go_to_missing(h, v, cur)
        ELSE IF cur # NULL /\ cur \notin Live(v) /\ ub = "crash" THEN Crash(<< >>)
        ELSE IF \/ cur = NULL
                \/ v[i] = cur
                \/ h[cur].parent = v[i]
                \/ h[v[i]].parent = cur
             THEN go_to_found(h, v, cur, v[i])
             ELSE go_to_missing(h, v, cur)

\* State_machine::go_to.  Reading on_exit through a current_state whose
\* cell was released is the dangling read.
go_to(h, v, cur, id, ub) ==
    LET i == FindFirst(h, v, id)
    IN  IF i = 0 THEN go_to_missing(h, v, cur)
        ELSE IF cur # NULL /\ cur \notin Live(v) /\ ub = "crash" THEN Crash(<< >>)
        ELSE go_to_found(h, v, cur, v[i])

\* The body shared by state_handle_event, state_render and state_update:
\* the callback `slot` is invoked through current_state if a state is
\* current and the slot is set.  Reading the slot through a current_state
\* whose cell was released is the dangling read.
Forward(h, v, cur, slot, ub) ==
    IF cur = NULL THEN Outcome(h, v, cur, "void", << >>)
    ELSE IF cur \notin Live(v) /\ ub = "crash" THEN Crash(<< >>)
    ELSE IF slot \in h[cur].cbs
         THEN Outcome(h, v, cur, "void", <<Call(h, v, slot, cur, cur)>>)
         ELSE Outcome(h, v, cur, "void", << >>)

\* State_machine::state_handle_event
state_handle_event(h, v, cur, ub) == Forward(h, v, cur, "state_handle_event", ub)

\* State_machine::state_render
state_render(h, v, cur, ub) == Forward(h, v, cur, "state_render", ub)

\* State_machine::state_update
state_update(h, v, cur, ub) == Forward(h, v, cur, "state_update", ub)

\* State_machine::current_state_name
current_state_name(h, cur) ==
    IF cur # NULL THEN h[cur].name ELSE "NONE"

\* Variant of EraseRemove: the vector is cleared.
EraseRemove_clears(m, n, x) ==
    [mem |-> m, size |-> 0]

\* Variant of EraseRemove: nothing is erased, the vector keeps the pointer.
EraseRemove_keeps(m, n, x) ==
    [mem |-> m, size |-> n]

\* std::remove + erase of `x` on a vector whose storage is `m` and whose
\* size is `n`: the kept elements move to the front, the storage behind the
\* new end keeps what it held.
EraseRemove(m, n, x) ==
    LET kept == SelectSeq(SubSeq(m, 1, n), LAMBDA e : e # x)
    IN  [mem  |-> kept \o SubSeq(m, Len(kept) + 1, Len(m)),
         size |-> Len(kept)]

\* Index of the first element of `v` equal to `x`, 0 if none (std::find_if).
IndexOf(v, x) ==
    IF \E i \in 1..Len(v) : v[i] = x
    THEN CHOOSE i \in 1..Len(v) : v[i] = x /\ \A j \in 1..(i - 1) : v[j] # x
    ELSE 0

\* vector::erase of the element at index i.
EraseAt(v, i) == SubSeq(v, 1, i - 1) \o SubSeq(v, i + 1, Len(v))

\* remove_state_recursive.  `w` is the memory the recursion works on:
\* w.mem[a], w.size[a] the storage and size of a's children vector,
\* w.states the owning vector, w.crashed the process died, w.order the
\* erasures made so far: <<"detach", s>> for the erase of s from its
\* parent's children, <<"release", s>> for the erase of s from the owning
\* vector, which destroys the State.  The range-for
\* over s->children fixes its end before the first iteration and reads the
\* storage slot by slot, while each child erases itself from that vector.
RECURSIVE remove_state_recursive(_, _, _, _)
RECURSIVE RemoveChildren(_, _, _, _, _, _)
remove_state_recursive(h, w, s, ub) ==
    IF w.crashed THEN w
    ELSE IF s \notin Live(w.states) /\ ub = "crash" THEN [w EXCEPT !.crashed = TRUE]
    ELSE
      LET w1 == RemoveChildren(h, w, s, 1, w.size[s], ub)
          p  == h[s].parent
      IN  IF w1.crashed THEN w1
          ELSE IF p # NULL /\ p \notin Live(w1.states) /\ ub = "crash"
               THEN [w1 EXCEPT !.crashed = TRUE]
          ELSE
            LET er == EraseRemove(w1.mem[p], w1.size[p], s)
                w2 == IF p = NULL THEN w1
                      ELSE [w1 EXCEPT !.mem[p] = er.mem, !.size[p] = er.size,
                                      !.order = Append(@, <<"detach", s>>)]
                it == IndexOf(w2.states, s)
            IN  IF it = 0 THEN w2
                ELSE [w2 EXCEPT !.states = EraseAt(w2.states, it),
                                !.order = Append(@, <<"release", s>>)]

RemoveChildren(h, w, s, i, end, ub) ==
    IF w.crashed \/ i > end THEN w
    ELSE RemoveChildren(h, remove_state_recursive(h, w, w.mem[s][i], ub),
                        s, i + 1, end, ub)

\* The removal clear_state starts on the State `target`: the recursion on
\* the memory as the call found it.
Removal(h, v, target, ub) ==
    remove_state_recursive(h,
                           [mem     |-> [a \in Addr |-> h[a].children],
                            size    |-> [a \in Addr |-> Len(h[a].children)],
                            states  |-> v,
                            crashed |-> FALSE,
                            order   |-> << >>],
                           target, ub)

\* The heap after a removal: every children vector as the recursion left it.
HeapAfter(h, w) ==
    [a \in Addr |-> [h[a] EXCEPT !.children = SubSeq(w.mem[a], 1, w.size[a])]]

\* Variant of clear_state_missing: the current state is exited and dropped
\* before the search for the id.
clear_state_missing_exits(h, v, cur) ==
    Outcome(h, v, NULL, "void", go_to_exit(h, v, cur))

\* Variant of clear_state_missing: current_state is reset although no state
\* is removed.
clear_state_missing_resets(h, v, cur) ==
    Outcome(h, v, NULL, "void", << >>)

\* clear_state, no state has the id: nothing is done.
clear_state_missing(h, v, cur) ==
    Outcome(h, v, cur, "void", << >>)

\* Variant of clear_state: whatever state is current is exited and
\* current_state is reset, as if every removal removed the current state.
clear_state_exits_any(h, v, cur, id, ub) ==
    LET it == FindFirst(h, v, id)
    IN  IF it = 0 THEN clear_state_missing(h, v, cur)
        ELSE
          LET w == Removal(h, v, v[it], ub)
          IN  IF w.crashed THEN Crash(go_to_exit(h, v, cur))
              ELSE Outcome(HeapAfter(h, w), w.states, NULL, "void",
                           go_to_exit(h, v, cur))

\* State_machine::clear_state
clear_state(h, v, cur, id, ub) ==
    LET it == FindFirst(h, v, id)
    IN  IF it = 0 THEN clear_state_missing(h, v, cur)
        ELSE
          LET target == v[it]
              isCur  == cur # NULL /\ cur = target
              exits  == IF isCur /\ "on_exit" \in h[cur].cbs
                        THEN <<Call(h, v, "on_exit", cur, cur)>>
                        ELSE << >>
              cur1   == IF isCur THEN NULL ELSE cur
              w      == Removal(h, v, target, ub)
          IN  IF w.crashed THEN Crash(exits)
              ELSE Outcome(HeapAfter(h, w), w.states, cur1, "void", exits)

\* The loop of clear_states: each state is erased from its parent's children
\* and its own children vector is cleared.
RECURSIVE UnlinkAll(_, _, _, _)
UnlinkAll(h, v, i, ub) ==
    IF i > Len(v) THEN [heap |-> h, crashed |-> FALSE]
    ELSE
      LET s == v[i]
          p == h[s].parent
      IN  IF p # NULL /\ p \notin Live(v) /\ ub = "crash"
          THEN [heap |-> h, crashed |-> TRUE]
          ELSE
            LET h1 == IF p = NULL THEN h
                      ELSE [h EXCEPT ![p].children =
                               SelectSeq(@, LAMBDA e : e # s)]
            IN  UnlinkAll([h1 EXCEPT ![s].children = << >>], v, i + 1, ub)

\* Variant of clear_states: current_state is not reset.
clear_states_keeps_current(h, v, cur, ub) ==
    LET r == UnlinkAll(h, v, 1, ub)
    IN  IF r.crashed THEN Crash(<< >>)
        ELSE Outcome(r.heap, << >>, cur, "void", << >>)

\* Variant of clear_states: the current state is exited first, as
\* clear_state does for its target.
clear_states_exits(h, v, cur, ub) ==
    LET r == UnlinkAll(h, v, 1, ub)
    IN  IF r.crashed THEN Crash(go_to_exit(h, v, cur))
        ELSE Outcome(r.heap, << >>, NULL, "void", go_to_exit(h, v, cur))

\* State_machine::clear_states
clear_states(h, v, cur, ub) ==
    LET r == UnlinkAll(h, v, 1, ub)
    IN  IF r.crashed THEN Crash(<< >>)
        ELSE Outcome(r.heap, << >>, NULL, "void", << >>)

\* ------------------------------------------------------------ frame driver

\* State_machine::get_current_state
get_current_state(cur) == cur

\* An entry of app.frame: the frame function or machine method called, the
\* event it was given ("none" for update and render) and whether
\* current_state designated an owned State at that moment.
FrameCall(h, v, cur, call, event) ==
    [call |-> call, event |-> event, active |-> cur \in Live(v)]

\* Variant of SDL_app_event: SDL_QUIT is forwarded to the machine like every
\* other event, after the application state is set.
SDL_app_event_forwards_quit(a, h, v, cur, event, ub) ==
    [app_state |-> IF event = "SDL_QUIT" THEN "SDL_APP_SUCCESS" ELSE a,
     calls     |-> IF get_current_state(cur) # NULL
                   THEN <<FrameCall(h, v, cur, "state_handle_event", event)>>
                   ELSE << >>,
     out       |-> IF get_current_state(cur) # NULL
                   THEN state_handle_event(h, v, cur, ub)
                   ELSE Outcome(h, v, cur, "void", << >>)]

\* Variant of SDL_app_event: an event other than SDL_QUIT puts the
\* application state back to SDL_APP_CONTINUE.
SDL_app_event_resumes(a, h, v, cur, event, ub) ==
    IF event = "SDL_QUIT"
    THEN [app_state |-> "SDL_APP_SUCCESS", calls |-> << >>,
          out |-> Outcome(h, v, cur, "void", << >>)]
    ELSE IF get_current_state(cur) # NULL
         THEN [app_state |-> "SDL_APP_CONTINUE",
               calls |-> <<FrameCall(h, v, cur, "state_handle_event", event)>>,
               out |-> state_handle_event(h, v, cur, ub)]
         ELSE [app_state |-> "SDL_APP_CONTINUE", calls |-> << >>,
               out |-> Outcome(h, v, cur, "void", << >>)]

\* SDL_app_event with the application state `a`: the new application state,
\* the calls forwarded to the machine and their outcome.
SDL_app_event(a, h, v, cur, event, ub) ==
    IF event = "SDL_QUIT"
    THEN [app_state |-> "SDL_APP_SUCCESS", calls |-> << >>,
          out |-> Outcome(h, v, cur, "void", << >>)]
    ELSE IF get_current_state(cur) # NULL
         THEN [app_state |-> a,
               calls |-> <<FrameCall(h, v, cur, "state_handle_event", event)>>,
               out |-> state_handle_event(h, v, cur, ub)]
         ELSE [app_state |-> a, calls |-> << >>,
               out |-> Outcome(h, v, cur, "void", << >>)]

\* Variant of SDL_app_cycle: the State is rendered before it is updated.
SDL_app_cycle_render_first(a, h, v, cur, ub) ==
    IF get_current_state(cur) = NULL
    THEN [continue |-> a = "SDL_APP_CONTINUE", calls |-> << >>,
          out |-> Outcome(h, v, cur, IF a = "SDL_APP_CONTINUE" THEN "true" ELSE "false", << >>)]
    ELSE LET r == state_render(h, v, cur, ub)
             u == state_update(h, v, cur, ub)
         IN  [continue |-> a = "SDL_APP_CONTINUE",
              calls |-> <<FrameCall(h, v, cur, "state_render", "none"),
                          FrameCall(h, v, cur, "state_update", "none")>>,
              out |-> IF r.crashed THEN r
                      ELSE Outcome(h, v, cur,
                                   IF a = "SDL_APP_CONTINUE" THEN "true" ELSE "false",
                                   r.log \o u.log)]

\* SDL_app_cycle with the application state `a`: state_update and then
\* state_render, each if a state is current; the result is whether the
\* application state is SDL_APP_CONTINUE.
SDL_app_cycle(a, h, v, cur, ub) ==
    IF get_current_state(cur) = NULL
    THEN [continue |-> a = "SDL_APP_CONTINUE", calls |-> << >>,
          out |-> Outcome(h, v, cur, IF a = "SDL_APP_CONTINUE" THEN "true" ELSE "false", << >>)]
    ELSE LET u == state_update(h, v, cur, ub)
             r == state_render(h, v, cur, ub)
         IN  [continue |-> a = "SDL_APP_CONTINUE",
              calls |-> <<FrameCall(h, v, cur, "state_update", "none")>>
                          \o IF u.crashed THEN << >>
                             ELSE <<FrameCall(h, v, cur, "state_render", "none")>>,
              out |-> IF u.crashed THEN u
                      ELSE Outcome(h, v, cur,
                                   IF a = "SDL_APP_CONTINUE" THEN "true" ELSE "false",
                                   u.log \o r.log)]

\* ------------------------------------------------------------------ driver

\* Name and callbacks the driver gives a State before add_state.
Kinds ==
    { [name |-> "START", cbs |-> {}],
      [name |-> "MENU",  cbs |-> {"on_enter"}],
      [name |-> "START", cbs |-> {"on_exit"}],
      [name |-> "MENU",  cbs |-> {"on_enter", "on_exit"}] }

TreeKinds == { [name |-> "START", cbs |-> {"on_enter", "on_exit"}] }

\* State objects a driver builds before handing them to add_state.
StatesOf(ids, kinds) ==
    {[NewState(id, k.name) EXCEPT !.cbs = k.cbs] : id \in ids, k \in kinds}

Init ==
    /\ heap = [a \in Addr |-> FreeCell]
    /\ states = << >>
    /\ current_state = NULL
    /\ last = [op |-> "none", id |-> << >>, before |-> Before("none"),
               again |-> FALSE]
    /\ ret = "none"
    /\ log = << >>
    /\ crashed = FALSE
    /\ idc = [op |-> "none", self |-> << >>, arg |-> << >>, after |-> << >>,
              result |-> << >>]
    /\ app = [app_state |-> "SDL_APP_CONTINUE", pc |-> "SDL_app_init",
              frame |-> << >>, code |-> "none"]
    /\ lang = [Curr_lang |-> DEFAULT_LANG, op |-> "none", arg |-> 0,
               result |-> "none", got |-> DEFAULT_LANG, before |-> DEFAULT_LANG]

DoAdd(inputs, cap) ==
    /\ ~crashed
    /\ Len(states) < cap
    /\ \E s \in inputs :
       \E raw \in Allocatable(heap, states, current_state) :
          Return("add_state", s.id, add_state(heap, states, current_state, raw, s))

\* The outcomes of a call `f(ub)` that may read through a dangling pointer:
\* what it does on the stale content, and the process dying if it does read.
Either(op, id, f(_)) ==
    \E ub \in UBOutcomes :
        /\ ub = "crash" => f(ub).crashed
        /\ Return(op, id, f(ub))

DoGoTo(ids) ==
    /\ ~crashed
    /\ \E id \in ids :
          Either("go_to", id, LAMBDA ub : go_to(heap, states, current_state, id, ub))

DoClearState(ids) ==
    /\ ~crashed
    /\ \E id \in ids :
          Either("clear_state", id,
                 LAMBDA ub : clear_state(heap, states, current_state, id, ub))

DoClearStates ==
    /\ ~crashed
    /\ Either("clear_states", << >>,
              LAMBDA ub : clear_states(heap, states, current_state, ub))

\* Driver varying names and callbacks over a small hierarchy.
Add == DoAdd(StatesOf(IDS, Kinds), MaxNodes)
GoTo == DoGoTo(IDS)
ClearState == DoClearState(IDS)
ClearStates == DoClearStates

Next ==
    \/ Add
    \/ GoTo
    \/ ClearState
    \/ ClearStates

Spec == Init /\ [][Next]_vars

\* Driver building wide hierarchies of uniform states.
TreeAdd == DoAdd(StatesOf(TreeIDS, TreeKinds), MaxTreeNodes)
TreeGoTo == DoGoTo(TreeIDS)
TreeClearState == DoClearState(TreeIDS)
TreeClearStates == DoClearStates

NextTree ==
    \/ TreeAdd
    \/ TreeGoTo
    \/ TreeClearState
    \/ TreeClearStates

SpecTree == Init /\ [][NextTree]_vars

\* Driver of the main loop: States with per-frame callbacks are registered
\* and switched, and each frame forwards events, update and render.
LoopKinds ==
    { [name |-> "START", cbs |-> {}],
      [name |-> "MENU",  cbs |-> {"state_update"}],
      [name |-> "START", cbs |-> {"state_handle_event", "state_render"}],
      [name |-> "MENU",  cbs |-> {"on_enter", "on_exit", "state_handle_event",
                                  "state_update", "state_render"}] }

DoHandleEvent ==
    /\ ~crashed
    /\ Either("state_handle_event", << >>,
              LAMBDA ub : state_handle_event(heap, states, current_state, ub))

DoUpdate ==
    /\ ~crashed
    /\ Either("state_update", << >>,
              LAMBDA ub : state_update(heap, states, current_state, ub))

DoRender ==
    /\ ~crashed
    /\ Either("state_render", << >>,
              LAMBDA ub : state_render(heap, states, current_state, ub))

LoopAdd == DoAdd(StatesOf(IDS, LoopKinds), MaxNodes)
LoopGoTo == DoGoTo(IDS)
LoopClearState == DoClearState(IDS)
LoopHandleEvent == DoHandleEvent
LoopUpdate == DoUpdate
LoopRender == DoRender

NextLoop ==
    \/ LoopAdd
    \/ LoopGoTo
    \/ LoopClearState
    \/ LoopHandleEvent
    \/ LoopUpdate
    \/ LoopRender

SpecLoop == Init /\ [][NextLoop]_vars

\* Driver of the start-up scenario: START {0}, MENU {1} and GAME {1,1}, each
\* with enter and exit callbacks, are registered in some order and the
\* machine is switched between them.
ScenarioIDS == {<<0>>, <<1>>, <<1, 1>>}

ScenarioName(id) ==
    IF id = <<0>> THEN "START" ELSE IF id = <<1>> THEN "MENU" ELSE "GAME"

ScenarioStates ==
    {[NewState(id, ScenarioName(id)) EXCEPT !.cbs = {"on_enter", "on_exit"}] :
        id \in ScenarioIDS}

ScenarioAdd == DoAdd(ScenarioStates, Cardinality(ScenarioStates))
ScenarioGoTo == DoGoTo(ScenarioIDS)

NextScenario ==
    \/ ScenarioAdd
    \/ ScenarioGoTo

SpecScenario == Init /\ [][NextScenario]_vars

\* What the caller of get_state holds: "nullptr" or the address.
PointerText(p) == IF p = NULL THEN "nullptr" ELSE ToString(p)

\* Driver of initiate_state and get_state: States are built by the machine
\* from an id and a name, looked up, made current and removed.
InitiateNames == {"START", "MENU"}

DoInitiate(ids, cap) ==
    /\ ~crashed
    /\ Len(states) < cap
    /\ \E id \in ids : \E nm \in InitiateNames :
       \E raw \in Allocatable(heap, states, current_state) :
          Return("initiate_state", id,
                 initiate_state(heap, states, current_state, raw, id, nm))

DoGetState(ids) ==
    /\ ~crashed
    /\ \E id \in ids :
          Return("get_state", id,
                 Outcome(heap, states, current_state,
                         PointerText(get_state(heap, states, id)), << >>))

InitiateState == DoInitiate(IDS, MaxNodes)
InitiateGetState == DoGetState(IDS)
InitiateGoTo == DoGoTo(IDS)
InitiateClearState == DoClearState(IDS)

NextInitiate ==
    \/ InitiateState
    \/ InitiateGetState
    \/ InitiateGoTo
    \/ InitiateClearState

SpecInitiate == Init /\ [][NextInitiate]_vars

\* Driver of the game: init_game_states in either version, then the machine
\* is switched between the States of the game, rendered, States are removed
\* and the machine is emptied.
GameIDS == {GameStates[k].id : k \in 1..Len(GameStates)}

GameInit ==
    /\ ~crashed
    /\ Return("init_game_states", << >>,
              init_game_states(heap, states, current_state))

GameInitiate ==
    /\ ~crashed
    /\ Return("init_game_states", << >>,
              init_game_states_initiate(heap, states, current_state))

GameGoTo == DoGoTo(GameIDS)
GameRender == DoRender
GameClearState == DoClearState(GameIDS)
GameClearStates == DoClearStates

NextGame ==
    \/ GameInit
    \/ GameInitiate
    \/ GameGoTo
    \/ GameRender
    \/ GameClearState
    \/ GameClearStates

SpecGame == Init /\ [][NextGame]_vars

\* The events SDL_PollEvent delivers.
Events == {"SDL_QUIT", "SDL_KEYDOWN", "SDL_KEYUP"}

\* Names and callbacks of the States the frame functions are called on.
FrameKinds ==
    { [name |-> "START", cbs |-> {}],
      [name |-> "MENU",  cbs |-> {"state_handle_event", "state_update",
                                  "state_render"}] }

\* Driver of the frame functions: SDL_app_event and SDL_app_cycle are called
\* on an application whose machine is filled, switched and reduced between
\* the calls.
FrameIDS == {<<1>>, <<1, 1>>}

FrameAdd == DoAdd(StatesOf(FrameIDS, FrameKinds), Cardinality(FrameIDS))
FrameGoTo == DoGoTo(FrameIDS)
FrameClearState == DoClearState(FrameIDS)

FrameEvent ==
    /\ ~crashed
    /\ \E e \in Events : \E ub \in UBOutcomes :
          LET r == SDL_app_event(app.app_state, heap, states, current_state, e, ub)
          IN  /\ ub = "crash" => r.out.crashed
              /\ ReturnWith("SDL_app_event", << >>, r.out,
                            [app EXCEPT !.app_state = r.app_state,
                                        !.frame = <<FrameCall(heap, states, current_state,
                                                              "SDL_app_event", e)>>
                                                    \o r.calls])

FrameCycle ==
    /\ ~crashed
    /\ \E ub \in UBOutcomes :
          LET r == SDL_app_cycle(app.app_state, heap, states, current_state, ub)
          IN  /\ ub = "crash" => r.out.crashed
              /\ ReturnWith("SDL_app_cycle", << >>, r.out,
                            [app EXCEPT !.frame = r.calls])

NextFrame ==
    \/ FrameAdd
    \/ FrameGoTo
    \/ FrameClearState
    \/ FrameEvent
    \/ FrameCycle

SpecFrame == Init /\ [][NextFrame]_vars

\* Driver main: the program of main.cpp, one action per statement of main.
START_ID == <<0>>

\* Number of events polled in the current iteration.
EventsPolled == Cardinality({k \in 1..Len(app.frame) : app.frame[k].call = "SDL_app_event"})

\* SDL_app_init succeeds or fails, as SDL_Init and the window creation do.
MainInit ==
    /\ app.pc = "SDL_app_init"
    /\ \E ok \in BOOLEAN :
          app' = IF ok
                 THEN [app EXCEPT !.app_state = "SDL_APP_CONTINUE",
                                  !.pc = "init_game_states"]
                 ELSE [app EXCEPT !.app_state = "SDL_APP_FAILURE",
                                  !.pc = "return", !.code = "-1"]
    /\ UNCHANGED <<heap, states, current_state, last, ret, log, crashed, idc, lang>>

MainInitStates ==
    /\ app.pc = "init_game_states"
    /\ ReturnWith("init_game_states", << >>,
                  init_game_states_initiate(heap, states, current_state),
                  [app EXCEPT !.pc = "go_to"])

MainGoToStart ==
    /\ app.pc = "go_to"
    /\ \E ub \in UBOutcomes :
          LET o == go_to(heap, states, current_state, START_ID, ub)
          IN  /\ ub = "crash" => o.crashed
              /\ ReturnWith("go_to", START_ID, o,
                            IF o.ret = "true"
                            THEN [app EXCEPT !.pc = "while"]
                            ELSE [app EXCEPT !.pc = "SDL_app_shutdown",
                                             !.code = "-1"])

MainWhile ==
    /\ app.pc = "while"
    /\ app' = IF app.app_state = "SDL_APP_CONTINUE"
              THEN [app EXCEPT !.pc = "SDL_PollEvent", !.frame = << >>]
              ELSE [app EXCEPT !.pc = "SDL_app_shutdown"]
    /\ UNCHANGED <<heap, states, current_state, last, ret, log, crashed, idc, lang>>

\* SDL_PollEvent delivers an event, which SDL_app_event handles.
MainEvent ==
    /\ app.pc = "SDL_PollEvent"
    /\ ~crashed
    /\ EventsPolled < MaxEvents
    /\ \E e \in Events : \E ub \in UBOutcomes :
          LET r == SDL_app_event(app.app_state, heap, states, current_state, e, ub)
          IN  /\ ub = "crash" => r.out.crashed
              /\ ReturnWith("SDL_app_event", << >>, r.out,
                            [app EXCEPT !.app_state = r.app_state,
                                        !.frame = @ \o <<FrameCall(heap, states, current_state,
                                                                   "SDL_app_event", e)>>
                                                    \o r.calls])

\* SDL_PollEvent has no event left: the inner loop ends.
MainNoEvent ==
    /\ app.pc = "SDL_PollEvent"
    /\ ~crashed
    /\ app' = [app EXCEPT !.pc = "SDL_app_cycle"]
    /\ UNCHANGED <<heap, states, current_state, last, ret, log, crashed, idc, lang>>

MainCycle ==
    /\ app.pc = "SDL_app_cycle"
    /\ ~crashed
    /\ \E ub \in UBOutcomes :
          LET r == SDL_app_cycle(app.app_state, heap, states, current_state, ub)
          IN  /\ ub = "crash" => r.out.crashed
              /\ ReturnWith("SDL_app_cycle", << >>, r.out,
                            [app EXCEPT !.frame = @ \o r.calls,
                                        !.pc = IF r.continue THEN "while"
                                               ELSE "SDL_app_shutdown"])

MainShutdown ==
    /\ app.pc = "SDL_app_shutdown"
    /\ app' = [app EXCEPT !.pc = "return",
                          !.code = IF @ = "-1" THEN "-1" ELSE "0"]
    /\ UNCHANGED <<heap, states, current_state, last, ret, log, crashed, idc, lang>>

NextMain ==
    \/ MainInit
    \/ MainInitStates
    \/ MainGoToStart
    \/ MainWhile
    \/ MainEvent
    \/ MainNoEvent
    \/ MainCycle
    \/ MainShutdown

SpecMain == Init /\ [][NextMain]_vars

\* main runs on: once in the loop, a statement that can be executed is
\* executed (SDL_PollEvent returns, the frame functions return); whether an
\* event arrives is up to the environment.
SpecMainFair ==
    /\ SpecMain
    /\ WF_vars(MainWhile)
    /\ WF_vars(MainNoEvent)
    /\ WF_vars(MainCycle)
    /\ WF_vars(MainShutdown)

\* Driver of Lang_state: Set_lang with the enumerators and the values behind
\* them up to MaxLangValue (the type is unsigned, no value is below EN), and
\* Get_lang.
LangInputs == 0..MaxLangValue

LangSet ==
    \E l \in LangInputs :
       LET r == Set_lang(lang.Curr_lang, l)
       IN  /\ lang' = [Curr_lang |-> r.Curr_lang, op |-> "Set_lang", arg |-> l,
                       result |-> r.result, got |-> lang.got,
                       before |-> lang.Curr_lang]
           /\ UNCHANGED <<heap, states, current_state, last, ret, log, crashed, idc, app>>

LangGet ==
    /\ lang' = [Curr_lang |-> lang.Curr_lang, op |-> "Get_lang", arg |-> 0,
                result |-> "none", got |-> Get_lang(lang.Curr_lang),
                before |-> lang.Curr_lang]
    /\ UNCHANGED <<heap, states, current_state, last, ret, log, crashed, idc, app>>

NextLang ==
    \/ LangSet
    \/ LangGet

SpecLang == Init /\ [][NextLang]_vars

\* Driver of State_ID: the methods are called on every identifier of
\* IdInputs; the machine is not touched.
IdParent ==
    \E a \in IdInputs :
       /\ idc' = IdCall("parent", a, << >>, Parent(a))
       /\ UNCHANGED <<heap, states, current_state, last, ret, log, crashed, app, lang>>

IdIsParentOf ==
    \E a \in IdInputs : \E b \in IdInputs :
       /\ idc' = IdCall("is_parent_of", a, b, IsParentOf(a, b))
       /\ UNCHANGED <<heap, states, current_state, last, ret, log, crashed, app, lang>>

IdChild ==
    \E a \in IdInputs : \E i \in IdLevels :
       /\ idc' = IdCall("child", a, i, Child(a, i))
       /\ UNCHANGED <<heap, states, current_state, last, ret, log, crashed, app, lang>>

NextId ==
    \/ IdParent
    \/ IdIsParentOf
    \/ IdChild

SpecId == Init /\ [][NextId]_vars

\* ------------------------------------------------------------------ claims

\* Identifiers of the States the machine owns.
IdsOf(h, v) == {h[a].id : a \in Live(v)}

\* The callbacks of a log as <<slot, id>> pairs.
LogCalls(l) == [k \in 1..Len(l) |-> <<l[k].cb, l[k].id>>]

\* The pair logged for slot `slot` of the owned State `a`, if the slot is set.
IfSet(h, a, slot) ==
    IF slot \in h[a].cbs THEN << <<slot, h[a].id>> >> ELSE << >>

\* C1: go_to(id) on a registered id returns true and, when it returns,
\* current_state is the registered State whose id is id and
\* current_state_name() is its name, whatever was current before.
C1_GoToRegisteredActivates ==
    [][ (/\ last'.op = "go_to"
         /\ ~crashed /\ ~crashed'
         /\ \E a \in Live(states) : heap[a].id = last'.id)
        => /\ ret' = "true"
           /\ current_state' \in Live(states')
           /\ heap'[current_state'].id = last'.id
           /\ \A a \in Live(states) :
                 heap[a].id = last'.id
                 => /\ current_state' = a
                    /\ current_state_name(heap', current_state') = heap[a].name
      ]_vars

\* C1 witness: a go_to has switched from another owned State to the target.
C1_Witness ==
    /\ last.op = "go_to" /\ ret = "true" /\ ~crashed
    /\ current_state \in Live(states)
    /\ heap[current_state].id = last.id
    /\ \E k \in 1..Len(log) : log[k].cb = "on_exit" /\ log[k].live /\ log[k].id # last.id

\* C2: go_to(id) on an id that is not registered returns false, leaves
\* current_state and all States and links unchanged and invokes no callback.
C2_GoToUnknownNoEffect ==
    [][ (/\ last'.op = "go_to"
         /\ ~crashed
         /\ ~\E a \in Live(states) : heap[a].id = last'.id)
        => /\ ret' = "false"
           /\ ~crashed'
           /\ heap' = heap
           /\ states' = states
           /\ current_state' = current_state
           /\ log' = << >>
      ]_vars

\* C2 witness: a go_to has failed while a State with an exit callback was
\* current and the machine held linked States.
C2_Witness ==
    /\ last.op = "go_to" /\ ret = "false"
    /\ current_state \in Live(states)
    /\ "on_exit" \in heap[current_state].cbs
    /\ \E a \in Live(states) : heap[a].parent # NULL

\* C3: with A current and B registered, A # B, go_to(B) invokes A.on_exit and
\* then B.on_enter (each if set), in that order, and no other callback.
C3_ExitThenEnter ==
    [][ (/\ last'.op = "go_to"
         /\ ~crashed
         /\ current_state \in Live(states)
         /\ heap[current_state].id # last'.id
         /\ \E b \in Live(states) : heap[b].id = last'.id)
        => /\ ~crashed'
           /\ \A b \in Live(states) :
                 heap[b].id = last'.id
                 => LogCalls(log') = IfSet(heap, current_state, "on_exit")
                                       \o IfSet(heap, b, "on_enter")
           /\ \A k \in 1..Len(log') : log'[k].live
      ]_vars

\* C3 witness: a go_to from A to B has invoked both callbacks.
C3_Witness ==
    /\ last.op = "go_to" /\ ret = "true"
    /\ Len(log) = 2
    /\ log[1].cb = "on_exit" /\ log[2].cb = "on_enter"
    /\ log[1].live /\ log[2].live
    /\ log[1].id # log[2].id
    /\ log[2].id = last.id

\* C4: in a successful go_to with a State current, on_exit is invoked on the
\* old State while current_state still designates it, on_enter is invoked on
\* the target once current_state designates the target, and on_enter never
\* precedes on_exit.
C4_ExitBeforeSwitchBeforeEnter ==
    [][ (/\ last'.op = "go_to"
         /\ ret' = "true"
         /\ ~crashed /\ ~crashed'
         /\ current_state \in Live(states))
        => /\ \A k \in 1..Len(log') :
                 log'[k].cb = "on_exit"
                 => log'[k].active /\ log'[k].live
                    /\ log'[k].id = heap[current_state].id
           /\ \A k \in 1..Len(log') :
                 log'[k].cb = "on_enter"
                 => log'[k].active /\ log'[k].live
                    /\ log'[k].id = last'.id
           /\ \A k \in 1..Len(log') : \A l \in 1..Len(log') :
                 k < l => ~(log'[k].cb = "on_enter" /\ log'[l].cb = "on_exit")
      ]_vars

\* C4 witness: a go_to between two different States has invoked on_exit and
\* on_enter, each through current_state.
C4_Witness ==
    /\ last.op = "go_to" /\ ret = "true"
    /\ Len(log) = 2
    /\ log[1].active /\ log[2].active
    /\ log[1].cb = "on_exit" /\ log[2].cb = "on_enter"
    /\ log[1].id # log[2].id

\* C5: go_to(id) with id the id of the current State returns true, invokes
\* its on_exit and then its on_enter (each if set), and the State stays
\* current.
C5_SelfTransitionRuns ==
    [][ (/\ last'.op = "go_to"
         /\ ~crashed
         /\ current_state \in Live(states)
         /\ heap[current_state].id = last'.id)
        => /\ ~crashed'
           /\ ret' = "true"
           /\ current_state' = current_state
           /\ LogCalls(log') = IfSet(heap, current_state, "on_exit")
                                 \o IfSet(heap, current_state, "on_enter")
      ]_vars

\* C5 witness: a go_to to the current State has invoked its on_exit and its
\* on_enter.
C5_Witness ==
    /\ last.op = "go_to" /\ ret = "true"
    /\ current_state \in Live(states)
    /\ Len(log) = 2
    /\ log[1].cb = "on_exit" /\ log[2].cb = "on_enter"
    /\ log[1].id = last.id /\ log[2].id = last.id

\* C6: add_state of a State whose id is already registered returns false,
\* does not retain the State and leaves every registered State (name,
\* callbacks, parent, children), their number and current_state unchanged.
C6_DuplicateAddRejected ==
    [][ (/\ last'.op = "add_state"
         /\ ~crashed
         /\ \E a \in Live(states) : heap[a].id = last'.id)
        => /\ ret' = "false"
           /\ ~crashed'
           /\ states' = states
           /\ \A a \in Live(states) : heap'[a] = heap[a]
           /\ current_state' = current_state
      ]_vars

\* C6 witness: an add_state was refused while the registered State of that
\* id was current and had callbacks set.
C6_Witness ==
    /\ last.op = "add_state" /\ ret = "false"
    /\ current_state \in Live(states)
    /\ heap[current_state].id = last.id
    /\ heap[current_state].cbs # {}

\* C7: add_state returns true exactly when no registered State has the new
\* State's id, whatever its name; on success the registered ids are the
\* previous ones plus the new id.
C7_AddSucceedsIffIdFresh ==
    [][ (/\ last'.op = "add_state"
         /\ ~crashed)
        => /\ ~crashed'
           /\ ret' \in {"true", "false"}
           /\ ret' = "true" <=> last'.id \notin IdsOf(heap, states)
           /\ ret' = "true"
              => /\ IdsOf(heap', states') = IdsOf(heap, states) \cup {last'.id}
                 /\ Len(states') = Len(states) + 1
      ]_vars

\* C7 witness: an add_state has succeeded for a State that shares its name
\* with a registered State of another id.
C7_Witness ==
    /\ last.op = "add_state" /\ ret = "true"
    /\ Len(states) >= 2
    /\ \E i \in 1..(Len(states) - 1) :
          /\ heap[states[i]].name = heap[states[Len(states)]].name
          /\ heap[states[i]].id # heap[states[Len(states)]].id

\* C8: after any sequence of add_state, clear_state, clear_states and go_to,
\* no two States the machine owns have equal ids.
C8_UniqueIds ==
    ~crashed =>
        \A i \in 1..Len(states) : \A j \in 1..Len(states) :
            i # j => heap[states[i]].id # heap[states[j]].id

\* C8 witness: an add_state of a registered id was refused while the machine
\* held at least three States.
C8_Witness ==
    /\ last.op = "add_state" /\ ret = "false"
    /\ Len(states) >= 3

\* C9: after any sequence of add_state, clear_state, clear_states and go_to,
\* the parent pointer of every registered State, if set, designates a
\* registered State whose id is id.parent() and whose children contain the
\* State.
C9_ParentLinksConsistent ==
    ~crashed =>
        \A a \in Live(states) :
            heap[a].parent # NULL
            => /\ heap[a].parent \in Live(states)
               /\ heap[heap[a].parent].id = Parent(heap[a].id)
               /\ a \in Range(heap[heap[a].parent].children)

\* C10: after any sequence of add_state, clear_state, clear_states and
\* go_to, a registered State with a non-empty id has no parent pointer
\* exactly when no registered State has the id id.parent().
C10_ParentlessIffParentAbsent ==
    ~crashed =>
        \A a \in Live(states) :
            heap[a].id # << >>
            => (heap[a].parent = NULL
                  <=> Parent(heap[a].id) \notin IdsOf(heap, states))

\* C11: a successful add_state of P sets the parent pointer of every
\* registered State whose id P's id is the structural parent of to P, and
\* P's children hold each of them (all of them, not the first only).
C11_AddAdoptsEveryChild ==
    [][ (/\ last'.op = "add_state"
         /\ ret' = "true"
         /\ ~crashed)
        => LET P == states'[Len(states')]
           IN  /\ Len(states') = Len(states) + 1
               /\ heap'[P].id = last'.id
               /\ \A i \in 1..Len(states) :
                     /\ heap'[states'[i]].id = heap[states[i]].id
                     /\ IsParentOf(last'.id, heap[states[i]].id)
                        => /\ heap'[states'[i]].parent = P
                           /\ states'[i] \in Range(heap'[P].children)
      ]_vars

\* C11 witness: the State added last has adopted two or more States
\* registered before it.
C11_Witness ==
    /\ last.op = "add_state" /\ ret = "true"
    /\ LET P == states[Len(states)]
       IN  /\ heap[P].id = <<1>>
           /\ Len(heap[P].children) >= 2
           /\ \A k \in 1..Len(heap[P].children) : heap[heap[P].children[k]].parent = P

\* The State of cell `a` as a driver builds it: no links yet.
Unlinked(s) == [s EXCEPT !.parent = NULL, !.children = << >>]

\* The machine after registering the owned States anew, in the order `p` of
\* their indexes, starting from an empty machine.
Reregistered(p) ==
    RegisterAll([a \in Addr |-> FreeCell], << >>,
                [k \in 1..Len(states) |-> Unlinked(heap[states[p[k]]])])

\* The links of a machine by identifier: for each registered id the id of
\* its parent (none: the empty sequence) and the ids of its children, in the
\* order of the children vector.
LinksOf(m) ==
    [id \in IdsOf(m.heap, m.states) |->
        LET a == CHOOSE a \in Live(m.states) : m.heap[a].id = id
        IN  [parent   |-> IF m.heap[a].parent = NULL THEN << >>
                          ELSE <<m.heap[m.heap[a].parent].id>>,
             children |-> [k \in 1..Len(m.heap[a].children) |->
                              m.heap[m.heap[a].children[k]].id]]]

\* The links with each children vector reduced to its members.
LinkMembersOf(m) ==
    LET l == LinksOf(m)
    IN  [id \in DOMAIN l |-> [parent |-> l[id].parent,
                              children |-> Range(l[id].children)]]

\* Orders of the owned States.
Orders == Permutations(1..Len(states))

\* C12 as stated: registering the same States (distinct ids) in any two
\* orders gives every State the same parent and the same children vector.
C12_OrderIndependentLinks ==
    (last.op = "add_state" /\ ret = "true" /\ ~crashed)
    => \A p \in Orders :
          LinksOf(Reregistered(p)) = LinksOf(Reregistered([k \in 1..Len(states) |-> k]))

\* C12 amended: registering the same States (distinct ids) in any two
\* orders gives every State the same parent and children vectors with the
\* same members; each children vector lists them in the order in which they
\* were registered.
C12_OrderIndependentMembers ==
    (last.op = "add_state" /\ ret = "true" /\ ~crashed)
    => \A p \in Orders :
          LET m == Reregistered(p)
          IN  /\ LinkMembersOf(m)
                   = LinkMembersOf(Reregistered([k \in 1..Len(states) |-> k]))
              /\ \A a \in Live(m.states) :
                    \A i, j \in 1..Len(m.heap[a].children) :
                       i < j => IndexOf(m.states, m.heap[a].children[i])
                                  < IndexOf(m.states, m.heap[a].children[j])

\* C12 witness: the machine holds a parent with two children and a State
\* registered before its parent, so the orders differ in both respects.
C12_Witness ==
    /\ last.op = "add_state" /\ ret = "true" /\ ~crashed
    /\ Len(states) >= 3
    /\ \E a \in Live(states) : Len(heap[a].children) >= 2
    /\ \E i, j \in 1..Len(states) :
          i < j /\ heap[states[i]].parent = states[j]

\* The id `a` is `b` or the id of an ancestor of `b` in the hierarchy.
InSubtree(a, b) == Len(a) <= Len(b) /\ SubSeq(b, 1, Len(a)) = a

\* C13: clear_state(x) on a registered x returns with x and every descendant
\* of x removed, whatever the number of children: no registered id is x's id
\* or below it.
C13_ClearStateRemovesSubtree ==
    [][ (/\ last'.op = "clear_state"
         /\ ~crashed /\ ~crashed'
         /\ last'.id \in IdsOf(heap, states))
        => \A id \in IdsOf(heap', states') : ~InSubtree(last'.id, id)
      ]_vars

\* C14: clear_state(x) while the current State is x or a descendant of x
\* invokes the current State's on_exit (if set) and nothing else, while that
\* State is still registered and current, and returns with current_state
\* null.
C14_ClearStateExitsActive ==
    [][ (/\ last'.op = "clear_state"
         /\ ~crashed /\ ~crashed'
         /\ last'.id \in IdsOf(heap, states)
         /\ current_state \in Live(states)
         /\ InSubtree(last'.id, heap[current_state].id))
        => /\ LogCalls(log') = IfSet(heap, current_state, "on_exit")
           /\ \A k \in 1..Len(log') : log'[k].live /\ log'[k].active
           /\ current_state' = NULL
      ]_vars

\* C15: clear_state(id) on an id that is not registered changes nothing: the
\* States, their links, the vector and current_state are as before and no
\* callback is invoked.
C15_ClearStateUnknownNoEffect ==
    [][ (/\ last'.op = "clear_state"
         /\ ~crashed
         /\ last'.id \notin IdsOf(heap, states))
        => /\ ~crashed'
           /\ heap' = heap
           /\ states' = states
           /\ current_state' = current_state
           /\ log' = << >>
      ]_vars

\* C15 witness: clear_state({1}) has returned while {1,1}, current and with
\* an exit callback, is registered next to another State: {1} was not
\* registered, or {1,1} would have gone with it.
C15_Witness ==
    /\ last.op = "clear_state" /\ last.id = <<1>> /\ ~crashed
    /\ Len(states) >= 2
    /\ current_state \in Live(states)
    /\ heap[current_state].id = <<1, 1>>
    /\ "on_exit" \in heap[current_state].cbs

\* C16: when clear_states returns, whatever the machine held, it owns no
\* State, current_state is null and current_state_name() is "NONE"; a go_to
\* that follows it returns false for every id and leaves current_state null.
C16_ClearStatesEmpties ==
    [][ /\ (/\ last'.op = "clear_states"
            /\ ~crashed /\ ~crashed')
           => /\ states' = << >>
              /\ current_state' = NULL
              /\ current_state_name(heap', current_state') = "NONE"
        /\ (/\ last.op = "clear_states"
            /\ ~crashed
            /\ last'.op = "go_to")
           => /\ ret' = "false"
              /\ ~crashed'
              /\ current_state' = NULL
      ]_vars

\* C16 witness: clear_states has returned after it was called on a machine
\* that owned three or more States.
C16_Witness ==
    /\ last.op = "clear_states" /\ ~crashed
    /\ last.before.n >= 3
    /\ states = << >> /\ current_state = NULL

\* C17: clear_states invokes no callback, also when an owned State with an
\* exit callback is current at the call.
C17_ClearStatesSilent ==
    [][ (/\ last'.op = "clear_states"
         /\ ~crashed)
        => log' = << >>
      ]_vars

\* C17 witness: clear_states has returned after it was called while an owned
\* State with an exit callback was current.
C17_Witness ==
    /\ last.op = "clear_states" /\ ~crashed
    /\ last.before.exit
    /\ log = << >>

\* The calls that forward to the current State.
ForwardOps == {"state_handle_event", "state_update", "state_render"}

\* C18: state_handle_event, state_update and state_render invoke the slot
\* of their name on the current State, once, if a registered State is
\* current and has the slot set, and nothing otherwise; no callback of
\* another State is invoked.
C18_ForwardToActiveOnly ==
    [][ (/\ last'.op \in ForwardOps
         /\ ~crashed /\ ~crashed')
        => /\ LogCalls(log') = IF current_state \in Live(states)
                               THEN IfSet(heap, current_state, last'.op)
                               ELSE << >>
           /\ \A k \in 1..Len(log') : log'[k].live /\ log'[k].active
      ]_vars

\* C19: in every reachable state current_state_name() is "NONE" exactly when
\* no registered State is current, and the name of the current State
\* otherwise; at the start, before any go_to, it is "NONE".
C19_NameOfActive ==
    ~crashed =>
       /\ current_state \in Live(states)
          => /\ current_state_name(heap, current_state) = heap[current_state].name
             /\ current_state_name(heap, current_state) # "NONE"
       /\ current_state \notin Live(states)
          => current_state_name(heap, current_state) = "NONE"

\* The hierarchy relation of the id `t` to the id `c`.
Relation(c, t) ==
    IF t = c THEN "self"
    ELSE IF IsParentOf(t, c) THEN "parent"
    ELSE IF IsParentOf(c, t) THEN "child"
    ELSE IF Len(t) = Len(c) /\ Parent(t) = Parent(c) THEN "sibling"
    ELSE "unrelated"

\* C20: go_to(id) on a registered id succeeds whatever the relation of the
\* target to the current State (none current, the same, parent, child,
\* sibling, unrelated) and whether or not the target's structural parent is
\* registered; the links and the vector are not consulted or changed.
C20_GoToAnyRegistered ==
    [][ (/\ last'.op = "go_to"
         /\ ~crashed /\ ~crashed'
         /\ last'.id \in IdsOf(heap, states))
        => /\ ret' = "true"
           /\ current_state' \in Live(states')
           /\ heap'[current_state'].id = last'.id
           /\ states' = states
           /\ \A a \in Live(states) :
                 /\ heap'[a].parent = heap[a].parent
                 /\ heap'[a].children = heap[a].children
      ]_vars

\* C20 witness: a go_to has switched from {2} to {1,1}, which is unrelated to
\* {2} and whose structural parent {1} is not registered.
C20_Witness ==
    /\ last.op = "go_to" /\ last.id = <<1, 1>> /\ ret = "true" /\ ~crashed
    /\ current_state \in Live(states)
    /\ heap[current_state].id = <<1, 1>>
    /\ heap[current_state].parent = NULL
    /\ <<1>> \notin IdsOf(heap, states)
    /\ \E k \in 1..Len(log) :
          /\ log[k].cb = "on_exit" /\ log[k].live
          /\ Relation(log[k].id, last.id) = "unrelated"

\* C21: a clear_state(x) made right after a clear_state(x) leaves the States,
\* their links, the vector and current_state as the first one left them and
\* invokes no callback; a clear_states made right after a clear_states
\* leaves the empty machine as it is.
C21_RemovalIdempotent ==
    [][ /\ (/\ last.op = "clear_state" /\ ~crashed
            /\ last'.op = "clear_state" /\ last'.id = last.id)
           => /\ ~crashed'
              /\ heap' = heap
              /\ states' = states
              /\ current_state' = current_state
              /\ log' = << >>
        /\ (/\ last.op = "clear_states" /\ ~crashed
            /\ last'.op = "clear_states")
           => /\ ~crashed'
              /\ heap' = heap
              /\ states' = << >> /\ states = << >>
              /\ current_state' = NULL /\ current_state = NULL
              /\ log' = << >>
      ]_vars

\* C21 witness: clear_state({1}) was repeated while another State, with an
\* exit callback, is registered and current.
C21_Witness ==
    /\ last.op = "clear_state" /\ last.id = <<1>> /\ last.again /\ ~crashed
    /\ current_state \in Live(states)
    /\ "on_exit" \in heap[current_state].cbs
    /\ log = << >>

\* The owned State of id `id`, NULL if none.
StateOfId(id) ==
    IF id \in IdsOf(heap, states)
    THEN CHOOSE a \in Live(states) : heap[a].id = id
    ELSE NULL

\* C22: with START {0}, MENU {1} and GAME {1,1} registered, go_to({0}) makes
\* current_state_name() "START"; a go_to({1,1}) made while START is current
\* invokes START's on_exit and then GAME's on_enter, makes
\* current_state_name() "GAME", and GAME's parent pointer designates MENU,
\* which need not have been current.
C22_StartMenuGameScenario ==
    [][ (/\ ~crashed
         /\ IdsOf(heap, states) = ScenarioIDS
         /\ last'.op = "go_to")
        => /\ last'.id = <<0>>
              => /\ ret' = "true"
                 /\ current_state_name(heap', current_state') = "START"
           /\ (last'.id = <<1, 1>> /\ current_state = StateOfId(<<0>>))
              => /\ ret' = "true"
                 /\ LogCalls(log') = << <<"on_exit", <<0>> >>,
                                        <<"on_enter", <<1, 1>> >> >>
                 /\ current_state_name(heap', current_state') = "GAME"
                 /\ heap'[current_state'].parent # NULL
                 /\ heap'[heap'[current_state'].parent].id = <<1>>
                 /\ heap'[heap'[current_state'].parent].name = "MENU"
      ]_vars

\* C22 witness: go_to({1,1}) has run START's exit and GAME's enter callback;
\* GAME is current and its parent is MENU.
C22_Witness ==
    /\ last.op = "go_to" /\ last.id = <<1, 1>> /\ ret = "true"
    /\ IdsOf(heap, states) = ScenarioIDS
    /\ LogCalls(log) = << <<"on_exit", <<0>> >>, <<"on_enter", <<1, 1>> >> >>
    /\ current_state_name(heap, current_state) = "GAME"
    /\ heap[current_state].parent = StateOfId(<<1>>)

\* C23: for every identifier a, parent() returns: if a is not empty,
\* a.parent().is_parent_of(a) holds; if a is empty, a.parent() is empty.
C23_ParentIsParentOf ==
    idc.op = "parent"
    => /\ idc.self # << >> => IsParentOf(idc.result, idc.self)
       /\ idc.self = << >> => idc.result = << >>

\* C23 witness: parent() was called on an identifier of two or more levels.
C23_Witness ==
    /\ idc.op = "parent"
    /\ Len(idc.self) >= 2
    /\ IsParentOf(idc.result, idc.self)

\* C24: for all identifiers a and b, a.is_parent_of(b) implies
\* b.parent() == a and len(b) = len(a) + 1; it is false for every b that is
\* not longer than a, a itself included.
C24_IsParentOfImpliesParent ==
    idc.op = "is_parent_of"
    => /\ idc.result => /\ IdEq(Parent(idc.arg), idc.self)
                        /\ Len(idc.arg) = Len(idc.self) + 1
       /\ Len(idc.arg) <= Len(idc.self) => ~idc.result

\* C24 witness: is_parent_of has returned true for a non-empty receiver.
C24_Witness ==
    /\ idc.op = "is_parent_of"
    /\ idc.result = TRUE
    /\ Len(idc.self) >= 1

\* C25: a.child(i) is a's levels with i appended, so a.child(i).parent() == a
\* and a.is_parent_of(a.child(i)); the call leaves a as it was.
C25_ChildAppends ==
    idc.op = "child"
    => /\ Len(idc.result) = Len(idc.self) + 1
       /\ \A k \in 1..Len(idc.self) : idc.result[k] = idc.self[k]
       /\ idc.result[Len(idc.result)] = idc.arg
       /\ IdEq(Parent(idc.result), idc.self)
       /\ IsParentOf(idc.self, idc.result)
       /\ idc.after = idc.self

\* C25 witness: child(i) was called on a non-empty identifier with a level
\* that differs from its last one.
C25_Witness ==
    /\ idc.op = "child"
    /\ Len(idc.self) >= 1
    /\ idc.arg # idc.self[Len(idc.self)]
    /\ Len(idc.result) = Len(idc.self) + 1

\* C26: after any sequence of add_state, clear_state, clear_states and go_to,
\* current_state is null or designates a State the machine owns; a
\* clear_state(x) never leaves it on the released State of a descendant
\* of x.
C26_CurrentStateOwned ==
    ~crashed => current_state \in Live(states) \cup {NULL}

RECURSIVE RootWithin(_, _)
RootWithin(a, n) ==
    IF a \notin Live(states) THEN FALSE
    ELSE IF heap[a].parent = NULL THEN TRUE
    ELSE n > 0 /\ RootWithin(heap[a].parent, n - 1)

\* C28: the parent pointers form a forest: no owned State is its own parent
\* or is in its own children vector, and following the parent pointers from
\* an owned State reaches a State without parent in at most as many steps
\* as its id has levels.
C28_ParentsFormForest ==
    ~crashed
    => \A a \in Live(states) :
         /\ heap[a].parent # a
         /\ a \notin Range(heap[a].children)
         /\ RootWithin(a, Len(heap[a].id))

\* Position of the event `e` in the order `o`, 0 if it is not in it.
PosIn(o, e) == IndexOf(o, e)

\* The order `o` of erasures is the post-order removal of the subtree of the
\* owned State `x`: every State of the subtree is released, once, after
\* all its descendants, and if it has a parent it is detached from it after
\* the release of its descendants and before its own release; x is
\* released last.
PostOrder(o, x) ==
    LET sub == {a \in Live(states) : InSubtree(heap[x].id, heap[a].id)}
        rel(a) == PosIn(o, <<"release", a>>)
        det(a) == PosIn(o, <<"detach", a>>)
    IN  /\ \A a \in sub : rel(a) > 0
        /\ \A j, k \in 1..Len(o) : o[j] = o[k] => j = k
        /\ \A k \in 1..Len(o) : o[k][2] \in sub
        /\ \A a \in sub :
             heap[a].parent # NULL => det(a) > 0 /\ det(a) < rel(a)
        /\ \A a, b \in sub :
             (a # b /\ InSubtree(heap[a].id, heap[b].id))
             => /\ rel(b) < rel(a)
                /\ det(a) > 0 => rel(b) < det(a)
        /\ o # << >> /\ o[Len(o)] = <<"release", x>>

\* C29: clear_state(x) on a registered x releases the States of x's subtree
\* depth-first in post-order: every descendant is detached from its parent's
\* children and released before its ancestor, x is detached from its own
\* parent and released last.
C29_RemovalPostOrder ==
    [][ (/\ last'.op = "clear_state"
         /\ ~crashed /\ ~crashed'
         /\ last'.id \in IdsOf(heap, states))
        => \A ub \in UBOutcomes :
             LET w == Removal(heap, states, StateOfId(last'.id), ub)
             IN  ~w.crashed => PostOrder(w.order, StateOfId(last'.id))
      ]_vars

\* What the pointer `p` of the memory `h` with owning vector `v` designates:
\* nothing, the owned State of an id, or a released State.
Designates(h, v, p) ==
    IF p = NULL THEN <<"null">>
    ELSE IF p \in Live(v) THEN <<"state", h[p].id>>
    ELSE <<"released">>

\* The pointer that designated `pre` before a call and designates `post`
\* after it was not written by the call: it designates what it did, or the
\* State it designated was released by the call and it still holds that
\* address.
NotWritten(pre, post) ==
    \/ post = pre
    \/ /\ pre[1] = "state"
       /\ pre[2] \notin IdsOf(heap', states')
       /\ post = <<"released">>

\* C30: clear_state(x) on a registered x leaves every State that is neither x
\* nor a descendant of x registered, with its name, callbacks and parent
\* pointer unchanged; its children vector is as before, except that x is
\* gone from the children vector of x's parent.
C30_ClearStateFrame ==
    [][ (/\ last'.op = "clear_state"
         /\ ~crashed /\ ~crashed'
         /\ last'.id \in IdsOf(heap, states))
        => \A a \in Live(states) :
             ~InSubtree(last'.id, heap[a].id)
             => \E b \in Live(states') :
                  /\ heap'[b].id = heap[a].id
                  /\ heap'[b].name = heap[a].name
                  /\ heap'[b].cbs = heap[a].cbs
                  /\ NotWritten(Designates(heap, states, heap[a].parent),
                                Designates(heap', states', heap'[b].parent))
                  /\ [k \in 1..Len(heap'[b].children) |->
                         Designates(heap', states', heap'[b].children[k])]
                       = SelectSeq([k \in 1..Len(heap[a].children) |->
                                       Designates(heap, states, heap[a].children[k])],
                                   LAMBDA d : d # <<"state", last'.id>>)
      ]_vars

\* clear_state removed a child of an owned State, which keeps its other
\* child: two States outside the removed subtree stay.
C30_Witness ==
    /\ ~crashed
    /\ last.op = "clear_state"
    /\ Len(last.id) = 2
    /\ ~id_exists(heap, states, last.id)
    /\ \E a \in Live(states) :
          /\ IsParentOf(heap[a].id, last.id)
          /\ Len(heap[a].children) = 1
    /\ Len(states) = 2

\* C31: clear_state(x) on a registered x, while the current State is neither
\* x nor a descendant of x (or no State is current), invokes no callback and
\* leaves current_state as it was.
C31_ClearStateKeepsOtherActive ==
    [][ (/\ last'.op = "clear_state"
         /\ ~crashed /\ ~crashed'
         /\ last'.id \in IdsOf(heap, states)
         /\ \/ current_state = NULL
            \/ /\ current_state \in Live(states)
               /\ ~InSubtree(last'.id, heap[current_state].id))
        => /\ log' = << >>
           /\ Designates(heap', states', current_state')
                = Designates(heap, states, current_state)
           /\ current_state' # NULL
              => /\ heap'[current_state'].name = heap[current_state].name
                 /\ heap'[current_state'].cbs = heap[current_state].cbs
      ]_vars

\* clear_state removed a registered id while another State, which has an
\* exit callback, was current and stays current.
C31_Witness ==
    /\ ~crashed
    /\ last.op = "clear_state"
    /\ ~id_exists(heap, states, last.id)
    /\ Len(states) >= 1
    /\ current_state \in Live(states)
    /\ "on_exit" \in heap[current_state].cbs
    /\ ~last.again
    /\ log = << >>

\* The registered States and their links: for each registered id what its
\* parent pointer and the entries of its children vector designate.
LinkView(h, v) ==
    [id \in IdsOf(h, v) |->
        LET a == CHOOSE a \in Live(v) : h[a].id = id
        IN  [parent   |-> Designates(h, v, h[a].parent),
             children |-> [k \in 1..Len(h[a].children) |->
                              Designates(h, v, h[a].children[k])]]]

\* C32: add_state, accepted or refused, invokes no callback and does not
\* write current_state: it stays null, or on the same owned State, or on the
\* released address it held (where only the State just added can now be).
\* A go_to that returns true and every state_handle_event, state_update and
\* state_render leave the registered ids and every parent and children link
\* as they were.
C32_AddAndSwitchFrames ==
    [][ (~crashed /\ ~crashed')
        => /\ last'.op = "add_state"
              => /\ log' = << >>
                 /\ current_state = NULL => current_state' = NULL
                 /\ current_state \in Live(states)
                    => /\ current_state' \in Live(states')
                       /\ heap'[current_state'].id = heap[current_state].id
                       /\ heap'[current_state'].name = heap[current_state].name
                 /\ current_state \notin Live(states) \cup {NULL}
                    => /\ current_state' # NULL
                       /\ current_state' \in Live(states')
                          => /\ ret' = "true"
                             /\ heap'[current_state'].id = last'.id
                             /\ last'.id \notin IdsOf(heap, states)
           /\ (\/ last'.op = "go_to" /\ ret' = "true"
               \/ last'.op \in ForwardOps)
              => LinkView(heap', states') = LinkView(heap, states)
      ]_vars

\* An add_state was accepted while a State with callbacks was current, and
\* linked the new State to it.
C32_Witness ==
    /\ ~crashed
    /\ last.op = "add_state"
    /\ ret = "true"
    /\ log = << >>
    /\ current_state \in Live(states)
    /\ heap[current_state].cbs # {}
    /\ heap[current_state].children # << >>

\* C33: whatever the sequence of calls, every on_exit and every on_enter
\* the last call invoked was invoked on a State the machine owns, through
\* current_state: on_exit on the State current at that moment, on_enter on
\* the State that had just become current.  No on_exit or on_enter of a
\* State that is not current is invoked.
C33_ExitEnterOnActiveOnly ==
    ~crashed
    => \A k \in 1..Len(log) :
         log[k].cb \in {"on_exit", "on_enter"}
         => /\ log[k].live
            /\ log[k].active
            /\ log[k].cb = "on_enter" => log[k].id = last.id

\* The name of the registered State of id `id`.
NameOfId(h, v, id) == h[CHOOSE a \in Live(v) : h[a].id = id].name

\* C34: init_game_states on an empty machine (no State owned, none current,
\* as after construction) registers exactly the ids {0},
\* {1}, {1,1}, {1,1,1}, {1,1,2}, {2}; START, MAIN_MENU and EXIT_PROGRAM have
\* no parent, GAME's parent is MAIN_MENU, the parent of LEVEL_GAMEPLAY and of
\* SMALL_MENU is GAME, GAME's children are exactly those two, and no State
\* is current.
C34_InitGameStatesTree ==
    [][ (/\ last'.op = "init_game_states"
         /\ ~crashed /\ ~crashed'
         /\ states = << >>
         /\ current_state = NULL)
        => LET l == LinkView(heap', states')
               nm(id) == NameOfId(heap', states', id)
           IN  /\ Len(states') = 6
               /\ DOMAIN l = {<<0>>, <<1>>, <<1, 1>>, <<1, 1, 1>>, <<1, 1, 2>>, <<2>>}
               /\ nm(<<0>>) = "START" /\ nm(<<1>>) = "MAIN_MENU"
               /\ nm(<<2>>) = "EXIT_PROGRAM" /\ nm(<<1, 1>>) = "GAME"
               /\ nm(<<1, 1, 1>>) = "LEVEL_GAMEPLAY" /\ nm(<<1, 1, 2>>) = "SMALL_MENU"
               /\ l[<<0>>].parent = <<"null">>
               /\ l[<<1>>].parent = <<"null">>
               /\ l[<<2>>].parent = <<"null">>
               /\ l[<<1, 1>>].parent = <<"state", <<1>>>>
               /\ l[<<1, 1, 1>>].parent = <<"state", <<1, 1>>>>
               /\ l[<<1, 1, 2>>].parent = <<"state", <<1, 1>>>>
               /\ Len(l[<<1, 1>>].children) = 2
               /\ Range(l[<<1, 1>>].children)
                    = {<<"state", <<1, 1, 1>>>>, <<"state", <<1, 1, 2>>>>}
               /\ current_state' = NULL
      ]_vars

\* init_game_states has returned: six States, GAME with two children, no
\* State current.
C34_Witness ==
    /\ ~crashed
    /\ last.op = "init_game_states"
    /\ Len(states) = 6
    /\ current_state = NULL
    /\ \E a \in Live(states) : heap[a].name = "GAME" /\ Len(heap[a].children) = 2

\* C35: after initiate_state(id, name), get_state(id) is an owned State of
\* that id.  When the id was registered already, initiate_state leaves the
\* vector and every owned State (its name too) as they were and get_state(id)
\* is the State that had the id; otherwise the id is added to the registered
\* ids.  get_state changes nothing and returns null exactly for an id that
\* is not registered.
C35_InitiateThenGet ==
    [][ (~crashed /\ ~crashed')
        => /\ last'.op = "initiate_state"
              => LET s == get_state(heap', states', last'.id)
                 IN  /\ s \in Live(states')
                     /\ heap'[s].id = last'.id
                     /\ last'.id \in IdsOf(heap, states)
                        => /\ states' = states
                           /\ \A a \in Live(states) : heap'[a] = heap[a]
                           /\ s = get_state(heap, states, last'.id)
                     /\ last'.id \notin IdsOf(heap, states)
                        => /\ IdsOf(heap', states')
                                = IdsOf(heap, states) \cup {last'.id}
                           /\ s = states'[Len(states')]
           /\ last'.op = "get_state"
              => /\ states' = states
                 /\ \A a \in Live(states) : heap'[a] = heap[a]
                 /\ ret' = "nullptr" <=> last'.id \notin IdsOf(heap, states)
                 /\ ret' # "nullptr"
                    => \E a \in Live(states) :
                          ret' = ToString(a) /\ heap[a].id = last'.id
      ]_vars

\* initiate_state was called with the id of the current State, which is
\* owned: the id was registered before the call.
C35_Witness ==
    /\ ~crashed
    /\ last.op = "initiate_state"
    /\ current_state \in Live(states)
    /\ heap[current_state].id = last.id
    /\ get_state(heap, states, last.id) = current_state

\* C39: Lang_state starts with EN.  Set_lang(l) with l EN or RU returns true
\* and Get_lang() then returns l; Set_lang with any other value (LIMIT or
\* beyond) returns false and leaves the current language as it was.  The
\* current language is always EN or RU, and Get_lang returns it.
C39_LangAlwaysValid ==
    /\ lang.Curr_lang \in {EN, RU}
    /\ lang.op = "none" => lang.Curr_lang = EN /\ Get_lang(lang.Curr_lang) = EN
    /\ lang.op = "Set_lang"
       => /\ lang.arg \in {EN, RU}
             => /\ lang.result = "true"
                /\ Get_lang(lang.Curr_lang) = lang.arg
          /\ lang.arg \notin {EN, RU}
             => /\ lang.result = "false"
                /\ lang.Curr_lang = lang.before
    /\ lang.op = "Get_lang"
       => lang.got = lang.Curr_lang /\ lang.Curr_lang = lang.before

\* Set_lang(LIMIT) was refused while the language was RU.
C39_Witness ==
    /\ lang.op = "Set_lang"
    /\ lang.arg = LIMIT
    /\ lang.result = "false"
    /\ lang.Curr_lang = RU

\* C36: SDL_app_event with SDL_QUIT sets the application state to
\* SDL_APP_SUCCESS and forwards nothing to the machine, no callback runs.
\* With any other event the application state stays as it was; if a State
\* is current, state_handle_event is called with the event and the current
\* State's state_handle_event callback runs (if set) and no other; if no
\* State is current nothing is forwarded.  The machine is left as it was.
C36_QuitNotForwarded ==
    [][ (/\ last'.op = "SDL_app_event"
         /\ ~crashed /\ ~crashed')
        => LET e == app'.frame[1].event
               forwarded == SubSeq(app'.frame, 2, Len(app'.frame))
           IN  /\ app'.frame[1].call = "SDL_app_event"
               /\ e = "SDL_QUIT"
                  => /\ app'.app_state = "SDL_APP_SUCCESS"
                     /\ forwarded = << >>
                     /\ log' = << >>
               /\ e # "SDL_QUIT"
                  => /\ app'.app_state = app.app_state
                     /\ current_state \in Live(states)
                        => /\ Len(forwarded) = 1
                           /\ forwarded[1].call = "state_handle_event"
                           /\ forwarded[1].event = e
                           /\ LogCalls(log')
                                = IfSet(heap, current_state, "state_handle_event")
                           /\ \A k \in 1..Len(log') : log'[k].live /\ log'[k].active
                     /\ current_state = NULL
                        => forwarded = << >> /\ log' = << >>
               /\ LinkView(heap', states') = LinkView(heap, states)
               /\ Designates(heap', states', current_state')
                    = Designates(heap, states, current_state)
      ]_vars

\* After an SDL_QUIT, another event was forwarded to the current State, whose
\* callback ran, and the application state is still SDL_APP_SUCCESS.
C36_Witness ==
    /\ ~crashed
    /\ last.op = "SDL_app_event"
    /\ app.frame[1].event = "SDL_KEYDOWN"
    /\ app.app_state = "SDL_APP_SUCCESS"
    /\ current_state \in Live(states)
    /\ Len(log) = 1 /\ log[1].cb = "state_handle_event" /\ log[1].live

\* SDL_app_event has handled an SDL_QUIT in the current iteration of main.
QuitHandled ==
    \E k \in 1..Len(app.frame) :
       app.frame[k].call = "SDL_app_event" /\ app.frame[k].event = "SDL_QUIT"

\* Number of calls of the machine method `call` in the frame `f`.
CallsOf(f, call) == Cardinality({k \in 1..Len(f) : f[k].call = call})

\* C37: once SDL_app_event has handled an SDL_QUIT, the application state is
\* SDL_APP_SUCCESS and never SDL_APP_CONTINUE again; main begins no further
\* iteration of its loop (the iteration under way still polls its events and
\* makes its one SDL_app_cycle with at most one update and one render), then
\* SDL_app_shutdown runs and main returns 0.  The loop is never left while
\* the application state is SDL_APP_CONTINUE.
C37_QuitEndsLoop ==
    /\ [][ /\ QuitHandled => app.app_state = "SDL_APP_SUCCESS"
           /\ app.app_state = "SDL_APP_SUCCESS"
              => /\ app'.app_state = "SDL_APP_SUCCESS"
                 /\ app.pc # "SDL_PollEvent" => app'.pc # "SDL_PollEvent"
                 /\ app.pc = "SDL_app_cycle" => app'.pc \in {"while", "SDL_app_shutdown"}
                 /\ app.pc = "while" => app'.pc = "SDL_app_shutdown"
           /\ CallsOf(app'.frame, "state_update") <= 1
           /\ CallsOf(app'.frame, "state_render") <= 1
           /\ (app.pc \in {"while", "SDL_PollEvent", "SDL_app_cycle"}
               /\ app'.pc \notin {"while", "SDL_PollEvent", "SDL_app_cycle"})
              => /\ app.app_state # "SDL_APP_CONTINUE"
                 /\ app'.pc = "SDL_app_shutdown"
           /\ (app.pc = "SDL_app_shutdown" /\ app'.pc # app.pc)
              => app'.pc = "return"
         ]_vars
    /\ QuitHandled ~> (app.pc = "return" /\ app.code = "0")

\* main has returned 0 after an iteration in which an SDL_QUIT was followed
\* by another event and by one update and one render.
C37_Witness ==
    /\ app.pc = "return"
    /\ app.code = "0"
    /\ \E j, k \in 1..Len(app.frame) :
          /\ j < k
          /\ app.frame[j].event = "SDL_QUIT"
          /\ app.frame[k].call = "state_handle_event"
    /\ CallsOf(app.frame, "state_update") = 1
    /\ CallsOf(app.frame, "state_render") = 1

\* The calls that hand an event on: SDL_app_event and state_handle_event.
EventCalls == {"SDL_app_event", "state_handle_event"}

\* C38: in each iteration of the main loop every event polled is handled
\* before state_update is called, state_update is called before
\* state_render, each at most once, and both only while a State is current;
\* when SDL_app_cycle has returned with a State current both were called,
\* and the State's update callback ran before its render callback.
C38_EventsUpdateRender ==
    LET f == app.frame
    IN  /\ \A j, k \in 1..Len(f) :
              j < k => /\ ~(/\ f[j].call \in {"state_update", "state_render"}
                            /\ f[k].call \in EventCalls)
                       /\ ~(f[j].call = "state_render" /\ f[k].call = "state_update")
        /\ CallsOf(f, "state_update") <= 1
        /\ CallsOf(f, "state_render") <= 1
        /\ \A k \in 1..Len(f) :
              f[k].call \in {"state_update", "state_render"} => f[k].active
        /\ (/\ last.op = "SDL_app_cycle"
            /\ app.pc \in {"while", "SDL_app_shutdown", "return"}
            /\ ~crashed)
           => /\ current_state \in Live(states)
                 => /\ CallsOf(f, "state_update") = 1
                    /\ CallsOf(f, "state_render") = 1
                    /\ LogCalls(log) = IfSet(heap, current_state, "state_update")
                                         \o IfSet(heap, current_state, "state_render")
              /\ current_state = NULL
                 => /\ CallsOf(f, "state_update") = 0
                    /\ CallsOf(f, "state_render") = 0
                    /\ log = << >>

\* An iteration of the main loop has handled two events, then updated and
\* rendered the current State, whose render callback ran.
C38_Witness ==
    /\ app.pc = "while"
    /\ Len(app.frame) = 6
    /\ app.frame[1].call = "SDL_app_event" /\ app.frame[2].call = "state_handle_event"
    /\ app.frame[3].call = "SDL_app_event" /\ app.frame[4].call = "state_handle_event"
    /\ app.frame[5].call = "state_update"
    /\ app.frame[6].call = "state_render"
    /\ Len(log) = 1 /\ log[1].cb = "state_render"

=============================================================================
